---- MODULE Spec2Model ----
(***************************************************************************)
(* A model of disport's main.py: the Controller that parses the output of  *)
(* "xrandr -q" into displays and builds the xrandr command line of the     *)
(* solo, clone and extend layouts, and main(), which dispatches on argv.   *)
(*                                                                         *)
(* A text line is modelled as the sequence of tokens that                  *)
(* line.split(" ") yields: a line that starts with a space has "" as its   *)
(* first token and at least two tokens.  A Command is the sequence of the  *)
(* fragments appended to it; a fragment is the token sequence of the       *)
(* appended string; call() joins the fragments with single spaces.         *)
(***************************************************************************)
EXTENDS Integers, Sequences, FiniteSets, TLC

VARIABLES
    argv,        \* sys.argv[1:]
    output,      \* the lines of the query output, after strip().split("\n")
    pc,          \* position of the run
    i,           \* index of the outer scan loop of Controller.__init__ (1-based)
    displays,    \* Controller._displays
    builtIn,     \* Controller._builtIn
    target,      \* the argument of reduce_viewport
    applied,     \* the command lines handed to Command.call() without feedback
    queries,     \* number of "xrandr -q" calls
    message,     \* the argument of a pending print_status
    stdout,      \* the messages printed
    exitStatus,  \* the exit status of the process, -1 while it runs
    exc          \* the uncaught exception that ended the run, or "none"

vars == <<argv, output, pc, i, displays, builtIn, target, applied, queries,
          message, stdout, exitStatus, exc>>

----------------------------------------------------------------------------
(* Bounds and input alphabets *)

MaxDisplays == 3

MaxLines == 4

NamePool == <<"eDP1", "HDMI1", "DP1", "DP2", "VGA2">>

Modes == {"clone", "c", "extend", "e", "solo", "s", "rotate"}

Directions == {"left", "l", "right", "r", "up"}

Argvs ==
    {<<>>} \cup {<<m>> : m \in Modes} \cup {<<m, d>> : m \in Modes, d \in Directions}

NoDisplay == [name |-> "<none>", resolutions |-> <<>>]

----------------------------------------------------------------------------
(* display.Resolution and display.Display *)

ResolutionTokens == {"1920x1080", "1280x720", "1024x768"}

\* Resolution(token): the token "<width>x<height>" split on "x" into two integers
Resolution(tok) ==
    CASE tok = "1920x1080" -> [width |-> 1920, height |-> 1080]
      [] tok = "1280x720"  -> [width |-> 1280, height |-> 720]
      [] tok = "1024x768"  -> [width |-> 1024, height |-> 768]

\* str(resolution): "<width>x<height>"
ResolutionStr(res) ==
    CHOOSE tok \in ResolutionTokens : Resolution(tok) = res

\* the order of resolutions: by pixel count, ties by width
ResolutionLess(a, b) ==
    \/ a.width * a.height < b.width * b.height
    \/ a.width * a.height = b.width * b.height /\ a.width < b.width

Display(name, resolutions) == [name |-> name, resolutions |-> resolutions]

GetResolutions(disp) == disp.resolutions

\* str(display): its identifier
DisplayStr(disp) == disp.name

\* display != display: by identifier
DisplayNe(a, b) == a.name # b.name

InSeq(x, s) == \E k \in 1..Len(s) : s[k] = x

\* a & b: the resolutions of a that b supports too
DisplayAnd(a, b) ==
    LET Shared(r) == InSeq(r, GetResolutions(b))
    IN  SelectSeq(GetResolutions(a), Shared)

\* max(resolutions) of a non-empty sequence
MaxResolution(rs) ==
    CHOOSE r \in {rs[k] : k \in 1..Len(rs)} :
        \A k \in 1..Len(rs) : ~ResolutionLess(r, rs[k])

----------------------------------------------------------------------------
(* command.Command *)

Command(base) == <<<<base>>>>

\* cmd += fragment
CommandAdd(cmd, fragment) == Append(cmd, fragment)

RECURSIVE Flatten(_)
\* the command line call() runs: the fragments joined with single spaces
Flatten(cmd) ==
    IF cmd = <<>> THEN <<>> ELSE Head(cmd) \o Flatten(Tail(cmd))

----------------------------------------------------------------------------
(* The line tests of Controller.__init__ *)

\* the tokens of the vocabulary whose text starts with "connected"
ConnectedPrefixed == {"connected"}

\* " connected" in line
HasConnected(line) ==
    \E k \in 2..Len(line) : line[k] \in ConnectedPrefixed

\* line.split(" ")[0]
DisplayName(line) == line[1]

\* line.startswith(" ")
IsIndented(line) == Len(line) >= 2 /\ line[1] = ""

RECURSIVE StripLeft(_)
StripLeft(line) ==
    IF Len(line) > 1 /\ Head(line) = "" THEN StripLeft(Tail(line)) ELSE line

\* line.strip(" ").split(" ")[0]
ModeToken(line) == Head(StripLeft(line))

RECURSIVE CollectResolutionsNoBreak(_, _)
\* the inner loop with "continue" where the code has "break"
CollectResolutionsNoBreak(out, j) ==
    IF j > Len(out) THEN <<>>
    ELSE IF IsIndented(out[j])
         THEN <<Resolution(ModeToken(out[j]))>> \o CollectResolutionsNoBreak(out, j + 1)
         ELSE CollectResolutionsNoBreak(out, j + 1)

RECURSIVE CollectResolutions(_, _)
\* the inner loop: for j in range(i+1, len(output))
CollectResolutions(out, j) ==
    IF j > Len(out) THEN <<>>
    ELSE IF IsIndented(out[j])
         THEN <<Resolution(ModeToken(out[j]))>> \o CollectResolutions(out, j + 1)
         ELSE <<>>

----------------------------------------------------------------------------
(* Controller: the operations on a parsed topology *)

RECURSIVE IntersectRest(_, _)
\* the loop of get_common_resolutions over self._displays[1:]
IntersectRest(dummy, rest) ==
    IF rest = <<>> THEN dummy
    ELSE IntersectRest(Display("Dummy", DisplayAnd(dummy, Head(rest))), Tail(rest))

\* get_common_resolutions looping over self._displays[2:]
GetCommonResolutionsSkipSecond(ds, b) ==
    GetResolutions(IntersectRest(Display("Dummy", GetResolutions(b)),
                                 SubSeq(ds, 3, Len(ds))))

GetCommonResolutions(ds, b) ==
    GetResolutions(IntersectRest(Display("Dummy", GetResolutions(b)), Tail(ds)))

RECURSIVE ReduceOthers(_, _, _, _)
\* the loop of reduce_viewport: the loop variable is the name disp that the
\* generator's filter reads, so the filter compares with the display last yielded
ReduceOthers(cmd, ds, k, disp) ==
    IF k > Len(ds) THEN cmd
    ELSE IF DisplayNe(ds[k], disp)
         THEN ReduceOthers(
                  CommandAdd(cmd, <<"--output", DisplayStr(ds[k]), "--off">>),
                  ds, k + 1, ds[k])
         ELSE ReduceOthers(cmd, ds, k + 1, disp)

\* the command reduce_viewport(disp) builds
ReduceCommand(ds, disp) ==
    LET c1 == CommandAdd(Command("xrandr"), <<"--output">>)
        c2 == CommandAdd(c1, <<DisplayStr(disp)>>)
        c3 == CommandAdd(c2, <<"--auto">>)
        c4 == CommandAdd(c3, <<"--rotate", "normal">>)
        c5 == CommandAdd(c4, <<"--pos", "0x0">>)
    IN  ReduceOthers(c5, ds, 1, disp)

RECURSIVE CloneEach(_, _, _, _)
CloneEach(cmd, ds, k, res) ==
    IF k > Len(ds) THEN cmd
    ELSE LET c1 == CommandAdd(cmd, <<"--output", DisplayStr(ds[k])>>)
             c2 == CommandAdd(c1, <<"--mode", res>>)
             c3 == CommandAdd(c2, <<"--rotate", "normal">>)
             c4 == CommandAdd(c3, <<"--pos", "0x0">>)
         IN  CloneEach(c4, ds, k + 1, res)

\* clone_viewport looping over self._displays[1:]
CloneCommandSkipFirst(ds, res) == CloneEach(Command("xrandr"), ds, 2, res)

\* the command clone_viewport builds for the mode res
CloneCommand(ds, res) == CloneEach(Command("xrandr"), ds, 1, res)

RECURSIVE ExtendRestAnchored(_, _, _, _, _, _)
\* extend_viewport without "prev = disp": every display anchored to the built-in one
ExtendRestAnchored(cmd, ds, k, b, direction, prev) ==
    IF k > Len(ds) THEN cmd
    ELSE IF DisplayNe(ds[k], b)
         THEN LET c1 == CommandAdd(cmd, <<"--output", DisplayStr(ds[k])>>)
                  c2 == CommandAdd(c1, <<"--auto">>)
                  c3 == CommandAdd(c2, <<"--rotate", "normal">>)
                  c4 == CommandAdd(c3, <<"--" \o direction \o "-of", DisplayStr(prev)>>)
              IN  ExtendRestAnchored(c4, ds, k + 1, b, direction, prev)
         ELSE ExtendRestAnchored(cmd, ds, k + 1, b, direction, prev)

RECURSIVE ExtendRest(_, _, _, _, _, _)
ExtendRest(cmd, ds, k, b, direction, prev) ==
    IF k > Len(ds) THEN cmd
    ELSE IF DisplayNe(ds[k], b)
         THEN LET c1 == CommandAdd(cmd, <<"--output", DisplayStr(ds[k])>>)
                  c2 == CommandAdd(c1, <<"--auto">>)
                  c3 == CommandAdd(c2, <<"--rotate", "normal">>)
                  c4 == CommandAdd(c3, <<"--" \o direction \o "-of", DisplayStr(prev)>>)
              IN  ExtendRest(c4, ds, k + 1, b, direction, ds[k])
         ELSE ExtendRest(cmd, ds, k + 1, b, direction, prev)

\* the command extend_viewport builds for a normalised direction
ExtendCommand(ds, b, direction) ==
    LET c1 == CommandAdd(Command("xrandr"), <<"--output", DisplayStr(b)>>)
        c2 == CommandAdd(c1, <<"--auto">>)
        c3 == CommandAdd(c2, <<"--rotate", "normal">>)
        c4 == CommandAdd(c3, <<"--pos", "0x0">>)
    IN  ExtendRest(c4, ds, 1, b, direction, b)

\* a normalisation that takes every other direction for "left"
NormalizeDirectionLenient(direction) ==
    IF direction \in {"right", "r"} THEN "right" ELSE "left"

\* the normalisation of extend_viewport; "bad" when it prints "Bad direction."
NormalizeDirection(direction) ==
    IF direction \in {"right", "r"} THEN "right"
    ELSE IF direction \in {"left", "l"} THEN "left"
    ELSE "bad"

----------------------------------------------------------------------------
(* The run of main() *)

\* sys.exit(code)
Exit(code) ==
    /\ pc' = "exit"
    /\ exitStatus' = code
    /\ UNCHANGED exc

\* an exception nothing catches: the interpreter prints a traceback, status 1
Uncaught(name) ==
    /\ pc' = "exit"
    /\ exitStatus' = 1
    /\ exc' = name

\* main: the argument count test
MainStart ==
    /\ pc = "start"
    /\ IF Len(argv) < 1
       THEN Exit(1)
       ELSE pc' = "query" /\ UNCHANGED <<exitStatus, exc>>
    /\ UNCHANGED <<argv, output, i, displays, builtIn, target, applied, queries,
                   message, stdout>>

\* Controller.__init__: the call of "xrandr -q"
Query ==
    /\ pc = "query"
    /\ queries' = queries + 1
    /\ displays' = <<>>
    /\ i' = 1
    /\ pc' = "scan"
    /\ UNCHANGED <<argv, output, builtIn, target, applied, message, stdout,
                   exitStatus, exc>>

\* Controller.__init__: one iteration of the outer loop
ScanLine ==
    /\ pc = "scan"
    /\ i <= Len(output)
    /\ displays' =
          IF HasConnected(output[i])
          THEN Append(displays,
                      Display(DisplayName(output[i]), CollectResolutions(output, i + 1)))
          ELSE displays
    /\ i' = i + 1
    /\ UNCHANGED <<argv, output, pc, builtIn, target, applied, queries, message,
                   stdout, exitStatus, exc>>

\* Controller.__init__: self._builtIn = self._displays[0]
FinishInit ==
    /\ pc = "scan"
    /\ i > Len(output)
    /\ IF displays = <<>>
       THEN Uncaught("IndexError") /\ UNCHANGED builtIn
       ELSE /\ builtIn' = displays[1]
            /\ pc' = "ready"
            /\ UNCHANGED <<exitStatus, exc>>
    /\ UNCHANGED <<argv, output, i, displays, target, applied, queries, message,
                   stdout>>

\* a dispatch whose unknown-mode branch exits with status 0
DispatchUnknownModeOk ==
    /\ pc = "ready"
    /\ IF argv[1] \in {"clone", "c"}
       THEN pc' = "clone" /\ UNCHANGED <<target, exitStatus, exc>>
       ELSE IF argv[1] \in {"extend", "e"}
       THEN IF Len(argv) < 2
            THEN Uncaught("IndexError") /\ UNCHANGED target
            ELSE pc' = "extend" /\ UNCHANGED <<target, exitStatus, exc>>
       ELSE IF argv[1] \in {"solo", "s"}
       THEN pc' = "reduce" /\ target' = builtIn /\ UNCHANGED <<exitStatus, exc>>
       ELSE Exit(0) /\ UNCHANGED target
    /\ UNCHANGED <<argv, output, i, displays, builtIn, applied, queries, message,
                   stdout>>

\* main: the dispatch on the mode
Dispatch ==
    /\ pc = "ready"
    /\ IF argv[1] \in {"clone", "c"}
       THEN pc' = "clone" /\ UNCHANGED <<target, exitStatus, exc>>
       ELSE IF argv[1] \in {"extend", "e"}
       THEN IF Len(argv) < 2
            THEN Uncaught("IndexError") /\ UNCHANGED target
            ELSE pc' = "extend" /\ UNCHANGED <<target, exitStatus, exc>>
       ELSE IF argv[1] \in {"solo", "s"}
       THEN pc' = "reduce" /\ target' = builtIn /\ UNCHANGED <<exitStatus, exc>>
       ELSE Exit(1) /\ UNCHANGED target
    /\ UNCHANGED <<argv, output, i, displays, builtIn, applied, queries, message,
                   stdout>>

\* reduce_viewport(target) up to cmd.call()
ReduceViewport ==
    /\ pc = "reduce"
    /\ applied' = Append(applied, Flatten(ReduceCommand(displays, target)))
    /\ message' = "Reduced viewport."
    /\ pc' = "status"
    /\ UNCHANGED <<argv, output, i, displays, builtIn, target, queries, stdout,
                   exitStatus, exc>>

\* clone_viewport up to cmd.call()
CloneViewport ==
    /\ pc = "clone"
    /\ IF Len(displays) > 1
       THEN LET common == GetCommonResolutions(displays, builtIn)
            IN  IF common = <<>>
                THEN Uncaught("ValueError") /\ UNCHANGED <<applied, message, stdout>>
                ELSE /\ applied' = Append(applied,
                            Flatten(CloneCommand(displays,
                                                 ResolutionStr(MaxResolution(common)))))
                     /\ message' = "Cloned viewport."
                     /\ pc' = "status"
                     /\ UNCHANGED <<stdout, exitStatus, exc>>
       ELSE /\ stdout' = Append(stdout, "Only one display connected. Cannot clone.")
            /\ Exit(0)
            /\ UNCHANGED <<applied, message>>
    /\ UNCHANGED <<argv, output, i, displays, builtIn, target, queries>>

\* extend_viewport that builds and runs the command before it tests the direction
ExtendViewportApplyFirst ==
    /\ pc = "extend"
    /\ IF Len(displays) < 2
       THEN /\ stdout' = Append(stdout, "Bad number of displays.")
            /\ Exit(1)
            /\ UNCHANGED <<applied, message>>
       ELSE IF NormalizeDirection(argv[2]) = "bad"
       THEN /\ applied' = Append(applied,
                   Flatten(ExtendCommand(displays, builtIn, argv[2])))
            /\ stdout' = Append(stdout, "Bad direction.")
            /\ Exit(1)
            /\ UNCHANGED message
       ELSE /\ applied' = Append(applied,
                   Flatten(ExtendCommand(displays, builtIn, NormalizeDirection(argv[2]))))
            /\ message' = "Extended viewport."
            /\ pc' = "status"
            /\ UNCHANGED <<stdout, exitStatus, exc>>
    /\ UNCHANGED <<argv, output, i, displays, builtIn, target, queries>>

\* extend_viewport(argv[2]) up to cmd.call()
ExtendViewport ==
    /\ pc = "extend"
    /\ IF Len(displays) < 2
       THEN /\ stdout' = Append(stdout, "Bad number of displays.")
            /\ Exit(1)
            /\ UNCHANGED <<applied, message>>
       ELSE IF NormalizeDirection(argv[2]) = "bad"
       THEN /\ stdout' = Append(stdout, "Bad direction.")
            /\ Exit(1)
            /\ UNCHANGED <<applied, message>>
       ELSE /\ applied' = Append(applied,
                   Flatten(ExtendCommand(displays, builtIn, NormalizeDirection(argv[2]))))
            /\ message' = "Extended viewport."
            /\ pc' = "status"
            /\ UNCHANGED <<stdout, exitStatus, exc>>
    /\ UNCHANGED <<argv, output, i, displays, builtIn, target, queries>>

\* print_status(message)
PrintStatus ==
    /\ pc = "status"
    /\ stdout' = Append(stdout, message)
    /\ Exit(0)
    /\ UNCHANGED <<argv, output, i, displays, builtIn, target, applied, queries,
                   message>>

----------------------------------------------------------------------------
(* The query outputs *)

ScreenLine == <<"Screen", "0:", "minimum", "8", "x", "8,">>

HeaderLine(name) == <<name, "connected", "primary">>

ModeLine(tok) == <<"", "", "", tok, "", "", "", "", "60.00">>

DisconnectedLine == <<"VGA1", "disconnected">>

RECURSIVE ModeLines(_)
ModeLines(toks) ==
    IF toks = <<>> THEN <<>> ELSE <<ModeLine(Head(toks))>> \o ModeLines(Tail(toks))

RECURSIVE Blocks(_, _)
\* one block per display: its header line, then one mode line per resolution
Blocks(names, lists) ==
    IF names = <<>> THEN <<>>
    ELSE <<HeaderLine(Head(names))>> \o ModeLines(Head(lists))
             \o Blocks(Tail(names), Tail(lists))

\* the mode lists a display reports
ModeLists ==
    { <<"1920x1080", "1280x720">>, <<"1920x1080", "1024x768">>, <<"1920x1080">>,
      <<"1280x720", "1024x768">>, <<>> }

\* the output of "xrandr -q" with the first n outputs of NamePool connected
QueryOutputs ==
    UNION { { <<ScreenLine>> \o Blocks(SubSeq(NamePool, 1, n), lists)
                  \o <<DisconnectedLine>> :
              lists \in [1..n -> ModeLists] } : n \in 0..MaxDisplays }

Init ==
    /\ argv \in Argvs
    /\ output \in QueryOutputs
    /\ pc = "start"
    /\ i = 1
    /\ displays = <<>>
    /\ builtIn = NoDisplay
    /\ target = NoDisplay
    /\ applied = <<>>
    /\ queries = 0
    /\ message = ""
    /\ stdout = <<>>
    /\ exitStatus = -1
    /\ exc = "none"

Next ==
    \/ MainStart
    \/ Query
    \/ ScanLine
    \/ FinishInit
    \/ Dispatch
    \/ ReduceViewport
    \/ CloneViewport
    \/ ExtendViewport
    \/ PrintStatus

Spec == Init /\ [][Next]_vars

----------------------------------------------------------------------------
(* reduce_viewport called on any display of a topology *)

\* the sequences of n distinct names of the pool
NameLists(n) ==
    { ns \in [1..n -> {NamePool[k] : k \in 1..Len(NamePool)}] :
          \A a, b \in 1..n : a # b => ns[a] # ns[b] }

NamedDisplays(ns) ==
    [k \in 1..Len(ns) |-> Display(ns[k], <<Resolution("1920x1080")>>)]

InitReduce ==
    /\ argv = <<"solo">>
    /\ \E n \in 1..MaxDisplays : \E ns \in NameLists(n) :
          /\ displays = NamedDisplays(ns)
          /\ output = <<ScreenLine>>
                        \o Blocks(ns, [k \in 1..n |-> <<"1920x1080">>])
                        \o <<DisconnectedLine>>
    /\ builtIn = displays[1]
    /\ \E k \in 1..Len(displays) : target = displays[k]
    /\ pc = "reduce"
    /\ i = Len(output) + 1
    /\ applied = <<>>
    /\ queries = 1
    /\ message = ""
    /\ stdout = <<>>
    /\ exitStatus = -1
    /\ exc = "none"

NextReduce == ReduceViewport \/ PrintStatus

SpecReduce == InitReduce /\ [][NextReduce]_vars

----------------------------------------------------------------------------
(* Controller.__init__ on arbitrary query output lines *)

EmptyLine == <<"">>

\* an indented line that holds " connected"
IndentedConnectedLine == <<"", "", "1024x768", "connected">>

FirstLines ==
    {EmptyLine, HeaderLine("eDP1"), HeaderLine("HDMI1"), DisconnectedLine}

LineAlphabet ==
    FirstLines \cup {ModeLine("1920x1080"), ModeLine("1280x720"), IndentedConnectedLine}

\* output.strip() leaves no white space at either end: the first line is never
\* indented, and the first and the last line are empty only in the empty output
InitParse ==
    /\ argv = <<"solo">>
    /\ \E n \in 1..MaxLines :
          output \in { ls \in [1..n -> LineAlphabet] :
                          /\ ls[1] \in FirstLines
                          /\ n > 1 => ls[1] # EmptyLine /\ ls[n] # EmptyLine }
    /\ pc = "scan"
    /\ i = 1
    /\ displays = <<>>
    /\ builtIn = NoDisplay
    /\ target = NoDisplay
    /\ applied = <<>>
    /\ queries = 1
    /\ message = ""
    /\ stdout = <<>>
    /\ exitStatus = -1
    /\ exc = "none"

NextParse == ScanLine \/ FinishInit

SpecParse == InitParse /\ [][NextParse]_vars

----------------------------------------------------------------------------
(* Helpers of the properties *)

Count(seq, tok) == Cardinality({k \in 1..Len(seq) : seq[k] = tok})

\* the places of the token group g in the command line cmd
GroupPlaces(cmd, g) ==
    {k \in 1..(Len(cmd) - Len(g) + 1) : SubSeq(cmd, k, k + Len(g) - 1) = g}

AutoGroup(name) == <<"--output", name, "--auto", "--rotate", "normal", "--pos", "0x0">>

OffGroup(name) == <<"--output", name, "--off">>

\* the command line of the one apply call
TheCommand == applied[1]

----------------------------------------------------------------------------
(* C1 *)

\* C1: reduce_viewport(target), for any display target of a topology of n >= 1
\* displays with distinct names, builds a command with exactly one
\* auto-configure group, for target, exactly n-1 "--off" directives, one for
\* each display other than target, and none for target.
C1_ReduceTurnsOffExactlyTheOthers ==
    (pc = "status" /\ message = "Reduced viewport.") =>
        /\ SubSeq(TheCommand, 1, 8) = <<"xrandr">> \o AutoGroup(DisplayStr(target))
        /\ Count(TheCommand, "--auto") = 1
        /\ Count(TheCommand, "--off") = Len(displays) - 1
        /\ \A k \in 1..Len(displays) :
              displays[k] # target =>
                  Cardinality(GroupPlaces(TheCommand, OffGroup(DisplayStr(displays[k])))) = 1
        /\ GroupPlaces(TheCommand, OffGroup(DisplayStr(target))) = {}

----------------------------------------------------------------------------
(* C2 *)

DirectionFlag(direction) ==
    IF direction \in {"left", "l"} THEN "--left-of" ELSE "--right-of"

\* the directive group that places ds[k] next to ds[k-1]
ChainedGroup(ds, k, direction) ==
    <<"--output", ds[k].name, "--auto", "--rotate", "normal",
      DirectionFlag(direction), ds[k - 1].name>>

\* the built-in display at 0x0, then every further display next to the one before
ChainedCommand(ds, direction) ==
    [p \in 1..(1 + 7 * Len(ds)) |->
        IF p = 1 THEN "xrandr"
        ELSE LET k == ((p - 2) \div 7) + 1
                 q == ((p - 2) % 7) + 1
             IN  IF k = 1 THEN AutoGroup(ds[1].name)[q]
                 ELSE ChainedGroup(ds, k, direction)[q]]

\* C2: with n >= 2 displays and a valid direction, extend_viewport emits the
\* built-in display auto-configured at 0x0, then for i = 2..n in list order one
\* group for display i placed "--<direction>-of" display i-1: a chain, each
\* display placed once and anchored to the one placed immediately before it.
C2_ExtendChains ==
    (pc = "status" /\ message = "Extended viewport.") =>
        /\ Len(displays) >= 2
        /\ argv[2] \in {"left", "l", "right", "r"}
        /\ TheCommand = ChainedCommand(displays, argv[2])

C2_Witness ==
    /\ pc = "status"
    /\ message = "Extended viewport."
    /\ Len(displays) = 3
    /\ argv[2] = "l"
    /\ GroupPlaces(TheCommand, <<"--left-of", displays[2].name>>) # {}

----------------------------------------------------------------------------
(* C3 *)

SupportedByAll(ds) ==
    {r \in {Resolution(t) : t \in ResolutionTokens} :
        \A k \in 1..Len(ds) : InSeq(r, ds[k].resolutions)}

ModeGroup(name, mode) ==
    <<"--output", name, "--mode", mode, "--rotate", "normal", "--pos", "0x0">>

\* one mode group per display, in list order
MirrorCommand(ds, mode) ==
    [p \in 1..(1 + 8 * Len(ds)) |->
        IF p = 1 THEN "xrandr"
        ELSE ModeGroup(ds[((p - 2) \div 8) + 1].name, mode)[((p - 2) % 8) + 1]]

\* C3: with n >= 2 displays and a non-empty common-resolution set,
\* clone_viewport emits for every display, in list order and once, a group that
\* sets the same mode, normal rotation and position 0x0; the mode is the maximum
\* of get_common_resolutions(), a resolution every display supports.
C3_CloneUsesGreatestCommonMode ==
    (pc = "status" /\ message = "Cloned viewport.") =>
        \E r \in SupportedByAll(displays) :
            /\ \A r2 \in SupportedByAll(displays) : ~ResolutionLess(r, r2)
            /\ InSeq(r, GetCommonResolutions(displays, builtIn))
            /\ \A k \in 1..Len(GetCommonResolutions(displays, builtIn)) :
                  ~ResolutionLess(r, GetCommonResolutions(displays, builtIn)[k])
            /\ Len(displays) >= 2
            /\ TheCommand = MirrorCommand(displays, ResolutionStr(r))

C3_Witness ==
    /\ pc = "status"
    /\ message = "Cloned viewport."
    /\ Len(displays) = 3
    /\ Cardinality(SupportedByAll(displays)) = 1
    /\ Len(displays[1].resolutions) = 2
    /\ Count(TheCommand, "--mode") = 3

----------------------------------------------------------------------------
(* C4 *)

CloneRequested == Len(argv) >= 1 /\ argv[1] \in {"clone", "c"}

ExtendRequested == Len(argv) >= 1 /\ argv[1] \in {"extend", "e"}

SoloRequested == Len(argv) >= 1 /\ argv[1] \in {"solo", "s"}

\* C4: with at least 2 displays and no resolution shared by all of them,
\* clone_viewport ends in a controlled way: no apply call, an explicit message
\* to the user, and no crash on the maximum of an empty set.
C4_EmptyCommonSetIsReported ==
    (/\ pc = "exit"
     /\ CloneRequested
     /\ Len(displays) >= 2
     /\ SupportedByAll(displays) = {}) =>
        /\ applied = <<>>
        /\ stdout # <<>>
        /\ exc = "none"

----------------------------------------------------------------------------
(* C5 *)

BadDirectionGiven ==
    /\ ExtendRequested
    /\ Len(argv) >= 2
    /\ argv[2] \notin {"left", "l", "right", "r"}

\* C5 as stated: for every direction outside {left, l, right, r} and every
\* topology of n >= 1 displays, extend_viewport prints "Bad direction.", exits
\* with status 1 and issues no apply call.
C5_BadDirectionAnyTopology ==
    (pc = "exit" /\ BadDirectionGiven /\ Len(displays) >= 1) =>
        /\ stdout = <<"Bad direction.">>
        /\ exitStatus = 1
        /\ applied = <<>>

\* C5 amended: for every direction outside {left, l, right, r}, extend_viewport
\* exits with status 1 and issues no apply call; with at least 2 displays it
\* prints "Bad direction.", with exactly 1 display the display count is tested
\* first and it prints "Bad number of displays." instead.
C5_BadDirectionAfterCountTest ==
    (BadDirectionGiven /\ Len(displays) >= 1) =>
        /\ applied = <<>>
        /\ pc \notin {"status"}
        /\ pc = "exit" =>
              /\ exitStatus = 1
              /\ exc = "none"
              /\ Len(displays) >= 2 => stdout = <<"Bad direction.">>
              /\ Len(displays) = 1 => stdout = <<"Bad number of displays.">>

C5_Witness ==
    /\ pc = "exit"
    /\ BadDirectionGiven
    /\ Len(displays) = 3
    /\ stdout = <<"Bad direction.">>

----------------------------------------------------------------------------
(* C6 *)

ConnectedLines(out) == {k \in 1..Len(out) : HasConnected(out[k])}

UnknownMode == Len(argv) >= 1 /\ argv[1] \notin {"clone", "c", "extend", "e", "solo", "s"}

----------------------------------------------------------------------------
(* C7 *)

\* C7: when no line of the query output holds " connected", constructing the
\* Controller fails with NoDisplaysFoundError, and the first element of the
\* empty display list is never read.
C7_NoDisplaysFoundError ==
    (pc = "exit" /\ queries = 1 /\ ConnectedLines(output) = {}) =>
        exc = "NoDisplaysFoundError"

----------------------------------------------------------------------------
(* C8 *)

SeqToSet(seq) == {seq[k] : k \in 1..Len(seq)}

\* the displays ds in the order f, a permutation of their indices
Reordered(ds, f) == [k \in 1..Len(ds) |-> ds[f[k]]]

ExampleLists ==
    << <<Resolution("1920x1080"), Resolution("1280x720")>>,
       <<Resolution("1920x1080"), Resolution("1024x768")>>,
       <<Resolution("1920x1080")>> >>

\* C8: for n >= 1 displays get_common_resolutions() returns exactly the
\* resolutions every display supports: each returned resolution is supported
\* by each display, none supported by all is missing, and the set is the same
\* for every order of the displays; for {1920x1080, 1280x720},
\* {1920x1080, 1024x768}, {1920x1080} it is {1920x1080}.
C8_CommonIsIntersection ==
    (pc \in {"ready", "clone", "extend", "reduce"}) =>
        /\ SeqToSet(GetCommonResolutions(displays, builtIn)) = SupportedByAll(displays)
        /\ \A f \in Permutations(1..Len(displays)) :
              SeqToSet(GetCommonResolutions(Reordered(displays, f), Reordered(displays, f)[1]))
                  = SeqToSet(GetCommonResolutions(displays, builtIn))
        /\ [k \in 1..Len(displays) |-> displays[k].resolutions] = ExampleLists =>
              GetCommonResolutions(displays, builtIn) = <<Resolution("1920x1080")>>

C8_Witness ==
    /\ pc = "ready"
    /\ [k \in 1..Len(displays) |-> displays[k].resolutions] = ExampleLists
    /\ SeqToSet(GetCommonResolutions(displays, builtIn)) = {Resolution("1920x1080")}

----------------------------------------------------------------------------
(* C9 *)

\* the first token of a line that is not empty
FirstToken(line) ==
    line[CHOOSE k \in 1..Len(line) :
             line[k] # "" /\ \A q \in 1..(k - 1) : line[q] = ""]

\* the end of the maximal run of indented lines that follows line h
RunEnd(out, h) ==
    CHOOSE e \in h..Len(out) :
        /\ \A k \in (h + 1)..e : IsIndented(out[k])
        /\ e = Len(out) \/ ~IsIndented(out[e + 1])

RECURSIVE Ascending(_)
Ascending(S) ==
    IF S = {} THEN <<>>
    ELSE LET m == CHOOSE x \in S : \A y \in S : x <= y
         IN  <<m>> \o Ascending(S \ {m})

\* one display per line that holds " connected", in textual order
DisplaysOfLines(out) ==
    LET hs == Ascending(ConnectedLines(out))
    IN  [d \in 1..Len(hs) |->
            [name |-> out[hs[d]][1],
             resolutions |->
                 [k \in 1..(RunEnd(out, hs[d]) - hs[d]) |->
                     Resolution(FirstToken(out[hs[d] + k]))]]]

RECURSIVE Scanner(_, _, _, _, _)
\* the scanner with the states SeekingHeader and CollectingModes: one pass, a
\* line read in CollectingModes is a mode line when indented, otherwise it ends
\* the display and is read as in SeekingHeader
Scanner(out, k, state, cur, acc) ==
    LET closed == IF state = "CollectingModes" THEN Append(acc, cur) ELSE acc
    IN  IF k > Len(out) THEN closed
        ELSE IF state = "CollectingModes" /\ IsIndented(out[k])
        THEN Scanner(out, k + 1, "CollectingModes",
                     [cur EXCEPT !.resolutions = Append(@, Resolution(ModeToken(out[k])))],
                     acc)
        ELSE IF HasConnected(out[k])
        THEN Scanner(out, k + 1, "CollectingModes", Display(DisplayName(out[k]), <<>>), closed)
        ELSE Scanner(out, k + 1, "SeekingHeader", NoDisplay, closed)

ScanDone == pc \in {"ready", "exit"}

\* a line of the run of indented lines after a " connected" line holds " connected" itself
ConnectedInsideRun(out) ==
    \E h \in ConnectedLines(out) :
        \E k \in (h + 1)..RunEnd(out, h) : HasConnected(out[k])

ScanIsPerLine ==
    /\ displays = DisplaysOfLines(output)
    /\ pc = "ready" => builtIn = displays[1]

\* C9 as stated: for every sequence of lines the scan yields one Display per
\* " connected" line, in order, named by the line's first token, with the first
\* tokens of the run of indented lines after it as resolutions, the built-in
\* display being the first; and this is what the two-state scanner yields.
C9_ScanEqualsScanner ==
    ScanDone =>
        /\ ScanIsPerLine
        /\ displays = Scanner(output, 1, "SeekingHeader", NoDisplay, <<>>)

\* C9 amended: the description of the scan holds for every sequence of lines;
\* it equals the two-state scanner's result for every sequence in which no
\* line of the indented run after a " connected" line holds " connected"
\* itself (the code reads such a line both as a mode line and as a header).
C9_ScanEqualsScannerOnCleanRuns ==
    ScanDone =>
        /\ ScanIsPerLine
        /\ ~ConnectedInsideRun(output) =>
              displays = Scanner(output, 1, "SeekingHeader", NoDisplay, <<>>)

C9_Witness ==
    /\ pc = "ready"
    /\ ~ConnectedInsideRun(output)
    /\ Len(displays) = 2
    /\ Len(displays[1].resolutions) = 2
    /\ displays = Scanner(output, 1, "SeekingHeader", NoDisplay, <<>>)

----------------------------------------------------------------------------
(* C10 *)

SuccessMessages == {"Reduced viewport.", "Cloned viewport.", "Extended viewport."}

\* C10: every run goes Parsing -> Ready -> one terminal state: the query is
\* called at most once and before any apply call, the apply call happens at
\* most once, a success message with exit 0 is printed only after the apply
\* call of that layout, and no run that ends in an error or a user error has
\* issued an apply call.
C10_RunOrder ==
    [][ /\ pc # "exit"
        /\ queries' \in {queries, queries + 1}
        /\ queries' <= 1
        /\ queries' # queries => pc = "query" /\ applied = <<>>
        /\ Len(applied') <= 1
        /\ applied' # applied =>
              /\ queries = 1
              /\ pc \in {"reduce", "clone", "extend"}
              /\ pc' = "status"
        /\ pc' = "scan" => pc \in {"query", "scan"}
        /\ pc' = "ready" => pc = "scan"
        /\ pc' \in {"reduce", "clone", "extend"} => pc = "ready"
        /\ pc' = "status" => pc \in {"reduce", "clone", "extend"}
        /\ stdout' # stdout =>
              /\ pc' = "exit"
              /\ stdout' = <<stdout'[1]>>
              /\ stdout'[1] \in SuccessMessages =>
                    /\ Len(applied) = 1
                    /\ exitStatus' = 0
                    /\ stdout'[1] = "Reduced viewport." =>
                          SoloRequested /\ Count(applied[1], "--off") = Len(displays) - 1
                    /\ stdout'[1] = "Cloned viewport." =>
                          CloneRequested /\ Count(applied[1], "--mode") = Len(displays)
                    /\ stdout'[1] = "Extended viewport." =>
                          ExtendRequested /\ Count(applied[1], "--auto") = Len(displays)
        /\ pc' = "exit" =>
              /\ exitStatus' \in {0, 1}
              /\ applied' # <<>> <=>
                    (stdout' # <<>> /\ stdout'[1] \in SuccessMessages /\ exitStatus' = 0)
              /\ (exitStatus' = 1 \/ exc' # "none") => applied' = <<>>
      ]_vars

C10_Witness ==
    /\ pc = "exit"
    /\ exitStatus = 0
    /\ queries = 1
    /\ Len(applied) = 1
    /\ stdout = <<"Extended viewport.">>

====
